---- MODULE Spec2Model ----
(***************************************************************************)
(* A model of simplenoc: a cycle driven Network-on-Chip simulator with a   *)
(* directory based cache coherence protocol.                               *)
(*                                                                         *)
(* The Python program is single threaded.  The model follows it at the     *)
(* granularity of the calls made by NoC.mainloop / NoC.cycle / Node.cycle: *)
(* every Router.message call of Node.cycle is one step, and a step         *)
(* contains everything the call does synchronously (nested handlers for    *)
(* packets a node sends to itself, evictions, ...).  A Python exception    *)
(* ends the run (err), as does the endless loop of Directory.evict.        *)
(***************************************************************************)
EXTENDS Integers, Sequences, FiniteSets, TLC

VARIABLES
    names,            \* NoC.nodes keys, in insertion order (a sequence)
    size,             \* Directory.size of every node
    homed_pages,      \* Directory.homed_pages of every node
    table,            \* Router.table of every node
    home,             \* NoC.home : page -> name of its home node
    program,          \* Node.program : remaining operation records
    flags,            \* Directory.flags : a defaultdict(int), per node
    lru,              \* Directory.lru
    presence,         \* Directory.presence, per node, per homed page
    frozen,           \* Node.frozen
    locked,           \* Node.locked
    awaiting,         \* Node.awaiting
    in_transit,       \* NoC.in_transit : sequence of <<packet, next hop>>
    cycle_counter,    \* NoC.cycle_counter
    buffer,           \* Writer.buffer : the trace
    awaiting_transit, \* local snapshot of NoC.cycle
    cur,              \* position of NoC.cycle's loop in names
    todo,             \* packets Node.cycle still has to hand to its router
    pc,               \* where the run is
    err               \* the exception (or hang) that ended the run, if any

vars == <<names, size, homed_pages, table, home, program, flags, lru,
          presence, frozen, locked, awaiting, in_transit, cycle_counter,
          buffer, awaiting_transit, cur, todo, pc, err>>

config == <<names, size, homed_pages, table, home>>

----------------------------------------------------------------------------
(* Program constants *)

INVALID == 0
SHARED == 1
MODIFIED == 2

NoErr == "none"
None == "None"

Nodes == {names[i] : i \in 1..Len(names)}

NewPacket(action, page, source, destination, embedded) ==
    [action |-> action, page |-> page, source |-> source,
     destination |-> destination, embedded |-> embedded]

----------------------------------------------------------------------------
(* The mutable part of the program as one record, so that the handlers,   *)
(* which call each other, can be written as functions from state to state. *)

Cur ==
    [flags |-> flags, lru |-> lru, presence |-> presence, frozen |-> frozen,
     locked |-> locked, awaiting |-> awaiting, in_transit |-> in_transit,
     buffer |-> buffer, err |-> err]

Raise(s, e) == IF s.err # NoErr THEN s ELSE [s EXCEPT !.err = e]

\* Python's "assert cond"
Check(s, cond) == IF cond THEN s ELSE Raise(s, "AssertionError")

RECURSIVE SeqHas(_, _)
SeqHas(q, x) ==
    IF q = <<>> THEN FALSE ELSE IF Head(q) = x THEN TRUE ELSE SeqHas(Tail(q), x)

----------------------------------------------------------------------------
(* Directory *)

\* self.flags[page] of a defaultdict(int): the value read
Flag(s, n, p) == IF p \in DOMAIN s.flags[n] THEN s.flags[n][p] ELSE INVALID

\* self.flags[page] of a defaultdict(int): reading a missing key inserts it
Touch(s, n, p) ==
    IF p \in DOMAIN s.flags[n] THEN s
    ELSE [s EXCEPT !.flags[n] =
            [q \in (DOMAIN @) \cup {p} |-> IF q = p THEN INVALID ELSE @[q]]]

\* self.flags[page] = v
SetFlag(s, n, p, v) ==
    IF s.err # NoErr THEN s
    ELSE [s EXCEPT !.flags[n] =
            [q \in (DOMAIN @) \cup {p} |-> IF q = p THEN v ELSE @[q]]]

has(s, n, p) == Flag(s, n, p) # INVALID

is_modified(s, n, p) == Flag(s, n, p) = MODIFIED

\* a dirty that checks the page but leaves its flag as it is
dirty_keeps(s, n, p) ==
    IF s.err # NoErr THEN s
    ELSE IF ~has(s, n, p) THEN Raise(Touch(s, n, p), "AssertionError")
    ELSE s

dirty(s, n, p) ==
    IF s.err # NoErr THEN s
    ELSE IF ~has(s, n, p) THEN Raise(Touch(s, n, p), "AssertionError")
    ELSE SetFlag(s, n, p, INVALID)

modify(s, n, p) ==
    IF s.err # NoErr THEN s
    ELSE IF ~has(s, n, p) THEN Raise(Touch(s, n, p), "AssertionError")
    ELSE SetFlag(s, n, p, MODIFIED)

share(s, n, p) ==
    IF s.err # NoErr THEN s
    ELSE IF ~has(s, n, p) THEN Raise(Touch(s, n, p), "AssertionError")
    ELSE SetFlag(s, n, p, SHARED)

\* an erase_presence that checks the entry but leaves the set as it is
erase_presence_keeps(s, n, p, m) ==
    IF s.err # NoErr THEN s
    ELSE IF p \notin DOMAIN s.presence[n] THEN Raise(s, "KeyError")
    ELSE IF m \notin s.presence[n][p] THEN Raise(s, "KeyError")
    ELSE s

erase_presence(s, n, p, m) ==
    IF s.err # NoErr THEN s
    ELSE IF p \notin DOMAIN s.presence[n] THEN Raise(s, "KeyError")
    ELSE IF m \notin s.presence[n][p] THEN Raise(s, "KeyError")
    ELSE [s EXCEPT !.presence[n][p] = @ \ {m}]

add_presence(s, n, p, m) ==
    IF s.err # NoErr THEN s
    ELSE IF p \notin DOMAIN s.presence[n] THEN Raise(s, "KeyError")
    ELSE [s EXCEPT !.presence[n][p] = @ \cup {m}]

\* the value copy_holders returns; its assertion is CopyHoldersOk
copy_holders(s, n, p) ==
    IF p \in DOMAIN s.presence[n] THEN s.presence[n][p] ELSE {}

CopyHoldersOk(s, n, p) ==
    IF s.err # NoErr THEN s
    ELSE IF p \notin homed_pages[n] THEN Raise(s, "AssertionError")
    ELSE IF p \notin DOMAIN s.presence[n] THEN Raise(s, "KeyError")
    ELSE s

\* Directory.owner: the name it returns (its assertions are in OwnerOk)
owner(s, n, p) ==
    IF Flag(s, n, p) = INVALID
    THEN CHOOSE m \in s.presence[n][p] : TRUE
    ELSE n

OwnerOk(s, n, p) ==
    IF s.err # NoErr THEN s
    ELSE IF p \notin homed_pages[n] THEN Raise(s, "AssertionError")
    ELSE IF Flag(s, n, p) = INVALID /\ Cardinality(s.presence[n][p]) # 1
         THEN Raise(Touch(s, n, p), "AssertionError")
    ELSE Touch(s, n, p)

----------------------------------------------------------------------------
(* Router and NoC.send.  Message is the entry of the mutual recursion:     *)
(* handlers send packets through the router, and the router hands a packet *)
(* whose destination is the node itself straight back to Node.handle.      *)
(* ord is the order in which this call iterates over a presence set.       *)

RECURSIVE message(_, _, _, _)

\* NoC.send
send(s, packet, source, destination) ==
    [s EXCEPT !.buffer = Append(@, <<packet, source, destination, cycle_counter>>),
              !.in_transit = Append(@, <<packet, destination>>)]

\* a route that stamps the forwarding node as the source of the packet
route_relabel(s, n, packet) ==
    IF s.err # NoErr THEN s
    ELSE IF packet.destination = n THEN Raise(s, "AssertionError")
    ELSE IF packet.destination \notin DOMAIN table[n] THEN Raise(s, "KeyError")
    ELSE send(s, [packet EXCEPT !.source = n], n, table[n][packet.destination])

\* Router.route
route(s, n, packet) ==
    IF s.err # NoErr THEN s
    ELSE IF packet.destination = n THEN Raise(s, "AssertionError")
    ELSE IF packet.destination \notin DOMAIN table[n] THEN Raise(s, "KeyError")
    ELSE send(s, packet, n, table[n][packet.destination])

\* Node.send_home
send_home(s, n, page, ord) ==
    IF s.err # NoErr THEN s
    ELSE IF page \notin DOMAIN home THEN Raise(s, "KeyError")
    ELSE message(s, n, NewPacket("EVICTION_SAVE", page, n, home[page], None), ord)

\* Node.notify_home
notify_home(s, n, page, ord) ==
    IF s.err # NoErr THEN s
    ELSE IF page \notin DOMAIN home THEN Raise(s, "KeyError")
    ELSE message(s, n, NewPacket("EVICTION_NOTICE", page, n, home[page], None), ord)

\* The number Directory.evict compares with size: it iterates over the dict,
\* that is over its keys (page identifiers), and keeps those that are not 0.
EvictCount(s, n) == Cardinality({k \in DOMAIN s.flags[n] : k # INVALID})

\* a Directory.evict that takes the oldest page, homed or not
FirstOfAll(q, n, i) == IF i > Len(q) THEN 0 ELSE i

\* index of the first page of q that is not homed at n (0 if there is none)
RECURSIVE FirstNotHomed(_, _, _)
FirstNotHomed(q, n, i) ==
    IF i > Len(q) THEN 0
    ELSE IF q[i] \notin homed_pages[n] THEN i
    ELSE FirstNotHomed(q, n, i + 1)

\* the end of Directory.evict: the page popped from the LRU list is sent to
\* or notified to its home, and its flag is set to INVALID
EvictPage(s, n, picked_page, ord) ==
    SetFlag(IF Flag(s, n, picked_page) = MODIFIED
            THEN send_home(s, n, picked_page, ord)
            ELSE notify_home(s, n, picked_page, ord),
            n, picked_page, INVALID)

\* the pop / append loop of Directory.evict: the pages before the first page
\* that is not homed go to the end of the list, that page leaves it
EvictAt(s, n, i, ord) ==
    IF i = 0 THEN Raise(s, "Hang")
    ELSE EvictPage([s EXCEPT !.lru[n] = SubSeq(@, i + 1, Len(@)) \o SubSeq(@, 1, i - 1)],
                   n, s.lru[n][i], ord)

\* a Directory.evict that makes room as soon as one place is left
evict_eager(s, n, ord) ==
    IF s.err # NoErr THEN s
    ELSE IF EvictCount(s, n) + 1 < size[n] THEN s
    ELSE IF s.lru[n] = <<>> THEN Raise(s, "IndexError")
    ELSE EvictAt(s, n, FirstNotHomed(s.lru[n], n, 1), ord)

\* Directory.evict
evict(s, n, ord) ==
    IF s.err # NoErr THEN s
    ELSE IF EvictCount(s, n) # size[n] THEN s
    ELSE IF s.lru[n] = <<>> THEN Raise(s, "IndexError")
    ELSE EvictAt(s, n, FirstNotHomed(s.lru[n], n, 1), ord)

\* self.lru.append(page)
LruAppend(s, n, page) ==
    IF s.err # NoErr THEN s ELSE [s EXCEPT !.lru[n] = Append(@, page)]

\* Directory.add
add(s, n, page, ord) ==
    LruAppend(SetFlag(evict(s, n, ord), n, page, SHARED), n, page)

----------------------------------------------------------------------------
(* Node: the scheduler and the protocol handlers *)

\* a deferral that puts the packet at the head of the awaiting queue
DeferFirst(s, n, packet) == [s EXCEPT !.awaiting[n] = <<packet>> \o @]

\* self.awaiting.append(packet)
Defer(s, n, packet) == [s EXCEPT !.awaiting[n] = Append(@, packet)]

\* self.frozen.add(page)
Freeze(s, n, page) ==
    IF s.err # NoErr THEN s ELSE [s EXCEPT !.frozen[n] = @ \cup {page}]

\* self.frozen.remove(page)
Unfreeze(s, n, page) ==
    IF s.err # NoErr THEN s
    ELSE IF page \notin s.frozen[n] THEN Raise(s, "KeyError")
    ELSE [s EXCEPT !.frozen[n] = @ \ {page}]

\* the has() calls of try_operation's all(...): they stop at the first
\* input page that is not held
RECURSIVE TouchInputs(_, _, _)
TouchInputs(s, n, q) ==
    IF q = <<>> THEN s
    ELSE IF has(s, n, Head(q)) THEN TouchInputs(s, n, Tail(q))
    ELSE Touch(s, n, Head(q))

\* a try_operation that clears the locked list without looking
UnlockAlways(s, n, ready) == [s EXCEPT !.locked[n] = <<>>]

\* a try_operation that never clears the locked list
UnlockNever(s, n, ready) == s

\* the end of Node.try_operation: self.locked = list() when all is ready
Unlock(s, n, ready) == IF ready THEN [s EXCEPT !.locked[n] = <<>>] ELSE s

\* Node.try_operation
try_operation(s, n) ==
    IF s.err # NoErr THEN s
    ELSE IF s.locked[n] = <<>> THEN Raise(s, "IndexError")
    ELSE LET input_pages == SubSeq(s.locked[n], 1, Len(s.locked[n]) - 1)
             output_page == s.locked[n][Len(s.locked[n])]
             input_ready == \A i \in 1..Len(input_pages) : has(s, n, input_pages[i])
             output_ready == has(s, n, output_page) /\ is_modified(s, n, output_page)
         IN Unlock(Touch(TouchInputs(s, n, input_pages), n, output_page), n,
                   input_ready /\ output_ready)

\* Node.read_miss when the home does not hold the page: owner's assertions
\* have passed
ReadMissRemote(s, n, packet, ord) ==
    IF s.err # NoErr THEN s
    ELSE Freeze(message(s, n,
                    NewPacket("REMOTE_READ", packet.page, n,
                              owner(s, n, packet.page), packet.source), ord),
                n, packet.page)

\* Node.read_miss
read_miss(s, n, packet, ord) ==
    IF s.err # NoErr THEN s
    ELSE IF packet.page \in s.frozen[n] THEN Defer(s, n, packet)
    ELSE IF has(s, n, packet.page)
    THEN message(share(add_presence(s, n, packet.page, packet.source),
                       n, packet.page),
                 n, NewPacket("REPLY", packet.page, n, packet.source, None), ord)
    ELSE ReadMissRemote(OwnerOk(Touch(s, n, packet.page), n, packet.page),
                        n, packet, ord)

\* Node.reply
reply(s, n, packet, ord) ==
    IF s.err # NoErr THEN s
    ELSE try_operation(add(s, n, packet.page, ord), n)

\* Node.remote_read
remote_read(s, n, packet, ord) ==
    IF s.err # NoErr THEN s
    ELSE IF ~has(s, n, packet.page)
    THEN Raise(Touch(s, n, packet.page), "AssertionError")
    ELSE message(share(s, n, packet.page), n,
            NewPacket("REMOTE_REPLY", packet.page, n, packet.source,
                      packet.embedded), ord)

\* a Node.remote_reply that forwards the page without recording the node
\* that asked for it in the presence set
RemoteReplyForwardUnrecorded(s, n, packet, ord) ==
    IF s.err # NoErr THEN s
    ELSE IF packet.embedded = n THEN try_operation(s, n)
    ELSE message(s, n,
            NewPacket("REPLY", packet.page, n, packet.embedded, None), ord)

\* the end of Node.remote_reply: the page goes to the node that asked for it
RemoteReplyForward(s, n, packet, ord) ==
    IF s.err # NoErr THEN s
    ELSE IF packet.embedded = n THEN try_operation(s, n)
    ELSE message(add_presence(s, n, packet.page, packet.embedded), n,
            NewPacket("REPLY", packet.page, n, packet.embedded, None), ord)

\* Node.remote_reply
remote_reply(s, n, packet, ord) ==
    IF s.err # NoErr THEN s
    ELSE RemoteReplyForward(
            Check(Unfreeze(add_presence(add(s, n, packet.page, ord),
                                        n, packet.page, n),
                           n, packet.page),
                  packet.embedded # None),
            n, packet, ord)

\* The for loop of Node.invalidate over the presence set, in the order ord.
\* A Python set iterator raises RuntimeError when it is asked for its next
\* element (also for the one after the last) and the set has changed size.
RECURSIVE InvalidateLoop(_, _, _, _, _, _)
InvalidateLoop(s, n, packet, ord, i, used) ==
    IF s.err # NoErr THEN s
    ELSE IF Cardinality(s.presence[n][packet.page]) # used
    THEN Raise(s, "RuntimeError")
    ELSE IF i > Len(ord) THEN s
    ELSE IF ord[i] = packet.source
    THEN InvalidateLoop(s, n, packet, ord, i + 1, used)
    ELSE InvalidateLoop(
            message(s, n, NewPacket("REMOTE_INVALIDATE", packet.page, n,
                                    ord[i], packet.source), ord),
            n, packet, ord, i + 1, used)

\* Node.invalidate
invalidate(s, n, packet, ord) ==
    IF s.err # NoErr THEN s
    ELSE IF ~has(s, n, packet.page)
    THEN Raise(Touch(s, n, packet.page), "AssertionError")
    ELSE IF packet.page \in s.frozen[n] \/ SeqHas(s.locked[n], packet.page)
    THEN Defer(s, n, packet)
    ELSE Freeze(
            erase_presence(
                dirty(
                    InvalidateLoop(
                        Check(CopyHoldersOk(s, n, packet.page),
                              Cardinality(copy_holders(s, n, packet.page)) >= 2),
                        n, packet, ord, 1, Len(ord)),
                    n, packet.page),
                n, packet.page, n),
            n, packet.page)

\* Node.invalidate_acknowledge
invalidate_acknowledge(s, n, packet) ==
    IF s.err # NoErr THEN s
    ELSE try_operation(modify(s, n, packet.page), n)

\* Node.remote_invalidate
remote_invalidate(s, n, packet, ord) ==
    IF s.err # NoErr THEN s
    ELSE IF SeqHas(s.locked[n], packet.page) THEN Defer(s, n, packet)
    ELSE message(dirty(s, n, packet.page), n,
            NewPacket("REMOTE_INVALIDATE_ACKNOWLEDGE", packet.page, n,
                      packet.source, packet.embedded), ord)

\* the end of Node.remote_invalidate_acknowledge: the last remote node has
\* answered
LastInvalidateAcknowledge(s, n, packet, ord) ==
    IF s.err # NoErr THEN s
    ELSE IF Cardinality(copy_holders(s, n, packet.page)) # 1 THEN s
    ELSE Unfreeze(
            message(Check(s, packet.embedded \in copy_holders(s, n, packet.page)),
                    n, NewPacket("INVALIDATE_ACKNOWLEDGE", packet.page, n,
                                 packet.embedded, None), ord),
            n, packet.page)

\* Node.remote_invalidate_acknowledge
remote_invalidate_acknowledge(s, n, packet, ord) ==
    IF s.err # NoErr THEN s
    ELSE LastInvalidateAcknowledge(
            CopyHoldersOk(erase_presence(s, n, packet.page, packet.source),
                          n, packet.page),
            n, packet, ord)

\* a loop of Node.read_invalidate that stops after the first holder it has
\* notified
ReadInvalidateLoopFirst(s, n, packet, ord, i) ==
    IF s.err # NoErr THEN s
    ELSE IF SelectSeq(ord, LAMBDA x : x # n) = <<>> THEN s
    ELSE message(s, n,
            NewPacket("REMOTE_READ_INVALIDATE", packet.page, n,
                      SelectSeq(ord, LAMBDA x : x # n)[1], packet.source), ord)

\* The for loop of Node.read_invalidate over the presence set, in the order ord
RECURSIVE ReadInvalidateLoop(_, _, _, _, _)
ReadInvalidateLoop(s, n, packet, ord, i) ==
    IF s.err # NoErr THEN s
    ELSE IF i > Len(ord) THEN s
    ELSE IF ord[i] = n THEN ReadInvalidateLoop(s, n, packet, ord, i + 1)
    ELSE ReadInvalidateLoop(
            message(s, n, NewPacket("REMOTE_READ_INVALIDATE", packet.page, n,
                                    ord[i], packet.source), ord),
            n, packet, ord, i + 1)

\* Node.read_invalidate once copy_holders has returned
ReadInvalidateHolders(s, n, packet, ord) ==
    IF s.err # NoErr THEN s
    ELSE IF copy_holders(s, n, packet.page) = {n}
    THEN message(
            add_presence(
                erase_presence(dirty(s, n, packet.page), n, packet.page, n),
                n, packet.page, packet.source),
            n, NewPacket("READ_INVALIDATE_ACKNOWLEDGE", packet.page, n,
                         packet.source, None), ord)
    ELSE Freeze(ReadInvalidateLoop(s, n, packet, ord, 1), n, packet.page)

\* Node.read_invalidate
read_invalidate(s, n, packet, ord) ==
    IF s.err # NoErr THEN s
    ELSE IF packet.page \in s.frozen[n] \/ SeqHas(s.locked[n], packet.page)
    THEN Defer(s, n, packet)
    ELSE ReadInvalidateHolders(CopyHoldersOk(s, n, packet.page), n, packet, ord)

\* Node.read_invalidate_acknowledge
read_invalidate_acknowledge(s, n, packet, ord) ==
    IF s.err # NoErr THEN s
    ELSE try_operation(modify(add(s, n, packet.page, ord), n, packet.page), n)

\* a Node.remote_read_invalidate that invalidates a locked page before it
\* defers the packet
remote_read_invalidate_eager(s, n, packet, ord) ==
    IF s.err # NoErr THEN s
    ELSE IF SeqHas(s.locked[n], packet.page)
    THEN Defer(SetFlag(s, n, packet.page, INVALID), n, packet)
    ELSE message(dirty(s, n, packet.page), n,
            NewPacket("REMOTE_READ_INVALIDATE_ACKNOWLEDGE", packet.page, n,
                      packet.source, packet.embedded), ord)

\* Node.remote_read_invalidate
remote_read_invalidate(s, n, packet, ord) ==
    IF s.err # NoErr THEN s
    ELSE IF SeqHas(s.locked[n], packet.page) THEN Defer(s, n, packet)
    ELSE message(dirty(s, n, packet.page), n,
            NewPacket("REMOTE_READ_INVALIDATE_ACKNOWLEDGE", packet.page, n,
                      packet.source, packet.embedded), ord)

\* the beginning of Node.remote_read_invalidate_acknowledge: the home takes
\* the page if it does not hold it
TakePage(s, n, packet, ord) ==
    IF has(s, n, packet.page) THEN s
    ELSE add_presence(add(Touch(s, n, packet.page), n, packet.page, ord),
                      n, packet.page, n)

\* the end of Node.remote_read_invalidate_acknowledge: the last remote node
\* has answered
LastReadInvalidateAcknowledge(s, n, packet, ord) ==
    IF s.err # NoErr THEN s
    ELSE IF Cardinality(copy_holders(s, n, packet.page)) # 1 THEN s
    ELSE Unfreeze(
            message(
                add_presence(
                    Check(erase_presence(dirty(s, n, packet.page),
                                         n, packet.page, n),
                          packet.embedded # None),
                    n, packet.page, packet.embedded),
                n, NewPacket("READ_INVALIDATE_ACKNOWLEDGE", packet.page, n,
                             packet.embedded, None), ord),
            n, packet.page)

\* Node.remote_read_invalidate_acknowledge
remote_read_invalidate_acknowledge(s, n, packet, ord) ==
    IF s.err # NoErr THEN s
    ELSE LastReadInvalidateAcknowledge(
            CopyHoldersOk(
                erase_presence(TakePage(s, n, packet, ord), n, packet.page,
                               packet.source),
                n, packet.page),
            n, packet, ord)

\* Node.eviction_save
eviction_save(s, n, packet, ord) ==
    IF s.err # NoErr THEN s
    ELSE IF has(s, n, packet.page) THEN Raise(s, "AssertionError")
    ELSE add_presence(
            erase_presence(
                dirty(add(Touch(s, n, packet.page), n, packet.page, ord),
                      n, packet.page),
                n, packet.page, packet.source),
            n, packet.page, n)

\* Node.eviction_notice
eviction_notice(s, n, packet) ==
    IF s.err # NoErr THEN s
    ELSE IF ~has(s, n, packet.page)
    THEN Raise(Touch(s, n, packet.page), "AssertionError")
    ELSE erase_presence(s, n, packet.page, packet.source)

\* Node.handle
handle(s, n, packet, ord) ==
    IF s.err # NoErr THEN s
    ELSE IF packet.destination # n THEN Raise(s, "AssertionError")
    ELSE CASE packet.action = "READ_MISS" -> read_miss(s, n, packet, ord)
           [] packet.action = "REPLY" -> reply(s, n, packet, ord)
           [] packet.action = "REMOTE_READ" -> remote_read(s, n, packet, ord)
           [] packet.action = "REMOTE_REPLY" -> remote_reply(s, n, packet, ord)
           [] packet.action = "INVALIDATE" -> invalidate(s, n, packet, ord)
           [] packet.action = "INVALIDATE_ACKNOWLEDGE" ->
                invalidate_acknowledge(s, n, packet)
           [] packet.action = "REMOTE_INVALIDATE" ->
                remote_invalidate(s, n, packet, ord)
           [] packet.action = "REMOTE_INVALIDATE_ACKNOWLEDGE" ->
                remote_invalidate_acknowledge(s, n, packet, ord)
           [] packet.action = "READ_INVALIDATE" ->
                read_invalidate(s, n, packet, ord)
           [] packet.action = "READ_INVALIDATE_ACKNOWLEDGE" ->
                read_invalidate_acknowledge(s, n, packet, ord)
           [] packet.action = "REMOTE_READ_INVALIDATE" ->
                remote_read_invalidate(s, n, packet, ord)
           [] packet.action = "REMOTE_READ_INVALIDATE_ACKNOWLEDGE" ->
                remote_read_invalidate_acknowledge(s, n, packet, ord)
           [] packet.action = "EVICTION_SAVE" -> eviction_save(s, n, packet, ord)
           [] packet.action = "EVICTION_NOTICE" -> eviction_notice(s, n, packet)
           [] OTHER -> Raise(s, "ValueError")

\* Router.message
message(s, n, packet, ord) ==
    IF s.err # NoErr THEN s
    ELSE IF packet.destination = n THEN handle(s, n, packet, ord)
    ELSE route(s, n, packet)

\* a READ_MISS loop that also requests the input pages the node holds
RECURSIVE RequestInputsAll(_, _, _, _, _)
RequestInputsAll(s, n, q, output_page, ord) ==
    IF s.err # NoErr \/ q = <<>> THEN s
    ELSE IF Head(q) = output_page
    THEN RequestInputsAll(Touch(s, n, Head(q)), n, Tail(q), output_page, ord)
    ELSE IF Head(q) \notin DOMAIN home
    THEN Raise(Touch(s, n, Head(q)), "KeyError")
    ELSE RequestInputsAll(
            message(Touch(s, n, Head(q)), n,
                    NewPacket("READ_MISS", Head(q), n, home[Head(q)], None), ord),
            n, Tail(q), output_page, ord)

\* The READ_MISS loop of Node.operation over the input pages
RECURSIVE RequestInputs(_, _, _, _, _)
RequestInputs(s, n, q, output_page, ord) ==
    IF s.err # NoErr \/ q = <<>> THEN s
    ELSE IF has(s, n, Head(q))
    THEN RequestInputs(s, n, Tail(q), output_page, ord)
    ELSE IF Head(q) = output_page
    THEN RequestInputs(Touch(s, n, Head(q)), n, Tail(q), output_page, ord)
    ELSE IF Head(q) \notin DOMAIN home
    THEN Raise(Touch(s, n, Head(q)), "KeyError")
    ELSE RequestInputs(
            message(Touch(s, n, Head(q)), n,
                    NewPacket("READ_MISS", Head(q), n, home[Head(q)], None), ord),
            n, Tail(q), output_page, ord)

\* the end of Node.operation: the write permission on the output page
RequestOutput(s, n, output_page, ord) ==
    IF s.err # NoErr THEN s
    ELSE IF output_page \notin DOMAIN home THEN Raise(s, "KeyError")
    ELSE IF ~has(s, n, output_page)
    THEN message(Touch(s, n, output_page), n,
            NewPacket("READ_INVALIDATE", output_page, n, home[output_page], None),
            ord)
    ELSE IF ~is_modified(s, n, output_page)
    THEN message(s, n,
            NewPacket("INVALIDATE", output_page, n, home[output_page], None), ord)
    ELSE try_operation(s, n)

\* Node.operation locking the output page only
operation_output_only(s, n, input_pages, output_page, ord) ==
    IF s.err # NoErr THEN s
    ELSE IF s.locked[n] # <<>> THEN Raise(s, "AssertionError")
    ELSE RequestOutput(
            RequestInputs([s EXCEPT !.locked[n] = <<output_page>>],
                          n, input_pages, output_page, ord),
            n, output_page, ord)

\* Node.operation
operation(s, n, input_pages, output_page, ord) ==
    IF s.err # NoErr THEN s
    ELSE IF s.locked[n] # <<>> THEN Raise(s, "AssertionError")
    ELSE RequestOutput(
            RequestInputs([s EXCEPT !.locked[n] = input_pages \o <<output_page>>],
                          n, input_pages, output_page, ord),
            n, output_page, ord)

----------------------------------------------------------------------------
(* Construction: NoC.__init__, NoC.node, Node.__init__, Directory.__init__ *)

\* Iteration order of a Python set of small non-negative integers (CPython:
\* a table of 8 slots for up to 4 elements, the slot of i is i mod 8).
RECURSIVE IntSetOrder(_)
IntSetOrder(S) ==
    IF S = {} THEN <<>>
    ELSE LET p == CHOOSE x \in S : \A y \in S : (x % 8) <= (y % 8)
         IN <<p>> \o IntSetOrder(S \ {p})

\* The state once every NoC.node call has returned: Directory.__init__ adds
\* each homed page (in set order), marks it MODIFIED and records the node in
\* its presence set.  No add of __init__ evicts when size >= the number of
\* homed pages, which Setup's callers guarantee.
Constructed(nm, hp) ==
    LET N == {nm[i] : i \in 1..Len(nm)}
    IN [flags |-> [n \in N |-> [p \in hp[n] |-> MODIFIED]],
        lru |-> [n \in N |-> IntSetOrder(hp[n])],
        presence |-> [n \in N |-> [p \in hp[n] |-> {n}]],
        frozen |-> [n \in N |-> {}],
        locked |-> [n \in N |-> <<>>],
        awaiting |-> [n \in N |-> <<>>],
        in_transit |-> <<>>,
        buffer |-> <<>>,
        err |-> NoErr]

\* NoC.home as NoC.node fills it
HomeOf(nm, hp) ==
    [p \in UNION {hp[nm[i]] : i \in 1..Len(nm)} |->
        CHOOSE n \in {nm[i] : i \in 1..Len(nm)} : p \in hp[n]]

\* The program state after the NoC was built with the given arguments
Setup(nm, sz, tb, hp, prog) ==
    /\ names = nm
    /\ size = sz
    /\ homed_pages = hp
    /\ table = tb
    /\ home = HomeOf(nm, hp)
    /\ program = prog
    /\ cycle_counter = 0
    /\ awaiting_transit = <<>>
    /\ cur = 0
    /\ todo = <<>>
    /\ pc = "mainloop"
    /\ flags = Constructed(nm, hp).flags
    /\ lru = Constructed(nm, hp).lru
    /\ presence = Constructed(nm, hp).presence
    /\ frozen = Constructed(nm, hp).frozen
    /\ locked = Constructed(nm, hp).locked
    /\ awaiting = Constructed(nm, hp).awaiting
    /\ in_transit = Constructed(nm, hp).in_transit
    /\ buffer = Constructed(nm, hp).buffer
    /\ err = Constructed(nm, hp).err

----------------------------------------------------------------------------
(* The run: NoC.mainloop, NoC.cycle, Node.cycle *)

MaxCycle == 12

\* an is_done that does not look at the locked list
is_done_program(n) == Len(program[n]) = 0

\* Node.is_done
is_done(n) == Len(program[n]) = 0 /\ Len(locked[n]) = 0

AllDone == \A n \in Nodes : is_done(n)

Install(s) ==
    /\ flags' = s.flags
    /\ lru' = s.lru
    /\ presence' = s.presence
    /\ frozen' = s.frozen
    /\ locked' = s.locked
    /\ awaiting' = s.awaiting
    /\ in_transit' = s.in_transit
    /\ buffer' = s.buffer
    /\ err' = s.err

\* a NoC.cycle that hands every node all the packets taken from transit
PacketsForAll(q, n) == [i \in 1..Len(q) |-> q[i][1]]

\* packets_for_node of NoC.cycle
RECURSIVE PacketsFor(_, _)
PacketsFor(q, n) ==
    IF q = <<>> THEN <<>>
    ELSE IF Head(q)[2] = n THEN <<Head(q)[1]>> \o PacketsFor(Tail(q), n)
    ELSE PacketsFor(Tail(q), n)

\* The orders in which a handler may iterate over the presence set it loops on
Permutations_(S) ==
    {f \in [1..Cardinality(S) -> S] : \A i, j \in 1..Cardinality(S) : f[i] = f[j] => i = j}

IterationOrders(n, packet) ==
    IF packet.destination = n
       /\ packet.action \in {"INVALIDATE", "READ_INVALIDATE"}
       /\ packet.page \in DOMAIN presence[n]
    THEN Permutations_(presence[n][packet.page])
    ELSE {<<>>}

\* NoC.mainloop finds a node that is not done and calls NoC.cycle, which
\* takes the packets in transit
StartCycle ==
    /\ pc = "mainloop"
    /\ ~AllDone
    /\ awaiting_transit' = in_transit
    /\ in_transit' = <<>>
    /\ cur' = 1
    /\ pc' = "node"
    /\ UNCHANGED <<config, program, flags, lru, presence, frozen, locked,
                   awaiting, cycle_counter, buffer, todo, err>>

\* NoC.cycle calls Node.cycle of the next node, which starts an operation if
\* it can and then takes its awaiting packets
NodeBegin ==
    /\ pc = "node"
    /\ LET n == names[cur]
           starts == Len(locked[n]) = 0 /\ Len(program[n]) # 0
           op == Head(program[n])
       IN \E s1 \in {IF ~starts THEN Cur
                      ELSE IF op = <<>> THEN Raise(Cur, "IndexError")
                      ELSE operation(Cur, n, SubSeq(op, 1, Len(op) - 1),
                                     op[Len(op)], <<>>)} :
          /\ program' = IF starts THEN [program EXCEPT ![n] = Tail(@)] ELSE program
          /\ IF s1.err # NoErr
             THEN /\ Install(s1)
                  /\ todo' = <<>>
                  /\ pc' = "crashed"
             ELSE /\ Install([s1 EXCEPT !.awaiting[n] = <<>>])
                  /\ todo' = s1.awaiting[n] \o PacketsFor(awaiting_transit, n)
                  /\ pc' = "dispatch"
    /\ UNCHANGED <<config, cycle_counter, awaiting_transit, cur>>

\* Node.cycle hands one packet to its router
Dispatch ==
    /\ pc = "dispatch"
    /\ todo # <<>>
    /\ \E ord \in IterationOrders(names[cur], Head(todo)) :
       \E s1 \in {message(Cur, names[cur], Head(todo), ord)} :
          /\ Install(s1)
          /\ pc' = IF s1.err # NoErr THEN "crashed" ELSE "dispatch"
    /\ todo' = Tail(todo)
    /\ UNCHANGED <<config, program, cycle_counter, awaiting_transit, cur>>

\* Node.cycle returns; NoC.cycle goes to the next node or ends the cycle
NodeEnd ==
    /\ pc = "dispatch"
    /\ todo = <<>>
    /\ IF cur < Len(names)
       THEN /\ cur' = cur + 1
            /\ pc' = "node"
            /\ UNCHANGED <<cycle_counter, awaiting_transit>>
       ELSE /\ cur' = 0
            /\ pc' = "mainloop"
            /\ awaiting_transit' = <<>>
            /\ cycle_counter' = IF cycle_counter < MaxCycle
                                THEN cycle_counter + 1 ELSE cycle_counter
    /\ UNCHANGED <<config, program, flags, lru, presence, frozen, locked,
                   awaiting, in_transit, buffer, todo, err>>

\* NoC.mainloop finds every node done and returns
Finish ==
    /\ pc = "mainloop"
    /\ AllDone
    /\ pc' = "done"
    /\ UNCHANGED <<config, program, flags, lru, presence, frozen, locked,
                   awaiting, in_transit, cycle_counter, buffer,
                   awaiting_transit, cur, todo, err>>

Next == StartCycle \/ NodeBegin \/ Dispatch \/ NodeEnd \/ Finish

----------------------------------------------------------------------------
(* Topologies and programs *)

\* every other node is a direct neighbour
Direct(nm) ==
    [n \in {nm[i] : i \in 1..Len(nm)} |->
        [d \in {nm[i] : i \in 1..Len(nm)} \ {n} |-> d]]

Pages == {1, 2}

MaxOpLen == 2

MaxTotalOps == 3

MaxSize == 3

\* operation records: non-empty page sequences, the last page is the output
Ops == UNION {[1..k -> Pages] : k \in 1..MaxOpLen}

ABC == <<"A", "B", "C">>

\* Three directly connected nodes: A homes page 1, B homes page 2 and C homes
\* nothing; every size and every choice of programs within the bounds.
Init ==
    \E sz \in 1..MaxSize : \E la \in 0..MaxTotalOps :
    \E lb \in 0..(MaxTotalOps - la) : \E lc \in 0..(MaxTotalOps - la - lb) :
    \E pa \in [1..la -> Ops] : \E pb \in [1..lb -> Ops] : \E pcx \in [1..lc -> Ops] :
        Setup(ABC, [n \in {"A", "B", "C"} |-> sz], Direct(ABC),
              [n \in {"A", "B", "C"} |->
                  IF n = "A" THEN {1} ELSE IF n = "B" THEN {2} ELSE {}],
              [n \in {"A", "B", "C"} |->
                  IF n = "A" THEN pa ELSE IF n = "B" THEN pb ELSE pcx])

Spec == Init /\ [][Next]_vars

\* S2: A homes page 1, B homes page 2, directly connected; A reads page 2
\* and writes page 1.  Every pair of sizes within the bounds.
InitS2 ==
    \E sza \in 2..(MaxSize + 1) : \E szb \in 2..(MaxSize + 1) :
        Setup(<<"A", "B">>, [n \in {"A", "B"} |-> IF n = "A" THEN sza ELSE szb],
              Direct(<<"A", "B">>),
              [n \in {"A", "B"} |-> IF n = "A" THEN {1} ELSE {2}],
              [n \in {"A", "B"} |-> IF n = "A" THEN <<<<2, 1>>>> ELSE <<>>])

SpecS2 == InitS2 /\ [][Next]_vars

MaxFill == 3

\* S4: B homes pages 2 and 4, A homes page 1, C homes page 3.  A and C read
\* page 2; B first writes page 4 a number of times and then runs its last
\* operation, which reads and writes page 2 or page 4.
InitS4 ==
    \E sz \in 3..(MaxSize + 1) : \E k \in 0..MaxFill : \E last \in {2, 4} :
        Setup(ABC, [n \in {"A", "B", "C"} |-> sz], Direct(ABC),
              [n \in {"A", "B", "C"} |->
                  IF n = "A" THEN {1} ELSE IF n = "B" THEN {2, 4} ELSE {3}],
              [n \in {"A", "B", "C"} |->
                  IF n = "A" THEN <<<<2, 1>>>>
                  ELSE IF n = "C" THEN <<<<2, 3>>>>
                  ELSE [i \in 1..k |-> <<4>>] \o <<<<last, last>>>>])

\* NoC.mainloop keeps calling NoC.cycle as long as a node is not done
FairSpecS4 == InitS4 /\ [][Next]_vars /\ WF_vars(Next)

\* S5: N homes nothing; H1 and H2 home pages 10, 11 and 12.  N either runs
\* one operation reading 11 and 12 and writing 10, or writes 10 and then
\* reads 11 while writing 10.
InitS5 ==
    \E szn \in 2..(MaxSize + 1) : \E szh \in 3..(MaxSize + 1) :
    \E h \in {{10}, {10, 11}} :
    \E prog \in {<<<<11, 12, 10>>>>, <<<<10>>, <<11, 10>>>>} :
        Setup(<<"H1", "H2", "N">>,
              [n \in {"H1", "H2", "N"} |-> IF n = "N" THEN szn ELSE szh],
              Direct(<<"H1", "H2", "N">>),
              [n \in {"H1", "H2", "N"} |->
                  IF n = "H1" THEN h ELSE IF n = "H2" THEN {10, 11, 12} \ h ELSE {}],
              [n \in {"H1", "H2", "N"} |-> IF n = "N" THEN prog ELSE <<>>])

SpecS5 == InitS5 /\ [][Next]_vars

MaxHomeOps == 2

\* P4: H1 homes page 10, or pages 10 and 11, and H2 the rest of pages 10, 11
\* and 12; H1 runs every program within the bounds over these pages, so
\* that it fills its directory with pages homed at H2.
InitP4 ==
    \E szh \in 2..(MaxSize + 1) : \E h \in {{10}, {10, 11}} :
    \E l \in 0..MaxHomeOps :
    \E prog \in [1..l -> UNION {[1..k -> {10, 11, 12}] : k \in 1..MaxOpLen}] :
        Setup(<<"H1", "H2">>,
              [n \in {"H1", "H2"} |-> IF n = "H1" THEN szh ELSE MaxSize + 1],
              Direct(<<"H1", "H2">>),
              [n \in {"H1", "H2"} |-> IF n = "H1" THEN h ELSE {10, 11, 12} \ h],
              [n \in {"H1", "H2"} |-> IF n = "H1" THEN prog ELSE <<>>])

SpecP4 == InitP4 /\ [][Next]_vars

ABCD == <<"A", "B", "C", "D">>

\* P5: four directly connected nodes; A homes pages 1 and 4, C page 2 and D
\* page 3.  B writes page 1 at once; C writes it, and A and D read it, after
\* a number of operations on a page they hold MODIFIED.
InitP5 ==
    \E fa \in 0..MaxFill : \E fc \in 0..MaxFill : \E fd \in 0..MaxFill :
        Setup(ABCD,
              [n \in {"A", "B", "C", "D"} |-> MaxSize + 1],
              Direct(ABCD),
              [n \in {"A", "B", "C", "D"} |->
                  IF n = "A" THEN {1, 4} ELSE IF n = "C" THEN {2}
                  ELSE IF n = "D" THEN {3} ELSE {}],
              [n \in {"A", "B", "C", "D"} |->
                  IF n = "A" THEN [i \in 1..fa |-> <<4>>] \o <<<<1, 4>>>>
                  ELSE IF n = "B" THEN <<<<1>>>>
                  ELSE IF n = "C" THEN [i \in 1..fc |-> <<2>>] \o <<<<1>>>>
                  ELSE [i \in 1..fd |-> <<3>>] \o <<<<1, 3>>>>])

SpecP5 == InitP5 /\ [][Next]_vars

\* P6: four directly connected nodes; A homes page 1, B page 2, D page 3 and
\* C, of size 2 or more, homes nothing.  C writes page 1 and later reads it while
\* writing page 2; B reads page 1 while writing page 2; D writes page 1.
\* B, C and D first run a number of operations on a page they hold MODIFIED.
InitP6 ==
    \E fb \in 0..MaxFill : \E fc \in 0..1 : \E fd \in 0..(2 * MaxFill) :
    \E szc \in 2..MaxSize :
        Setup(ABCD,
              [n \in {"A", "B", "C", "D"} |-> IF n = "C" THEN szc ELSE MaxSize + 1],
              Direct(ABCD),
              [n \in {"A", "B", "C", "D"} |->
                  IF n = "A" THEN {1} ELSE IF n = "B" THEN {2}
                  ELSE IF n = "D" THEN {3} ELSE {}],
              [n \in {"A", "B", "C", "D"} |->
                  IF n = "A" THEN <<>>
                  ELSE IF n = "B" THEN [i \in 1..fb |-> <<2>>] \o <<<<1, 2>>>>
                  ELSE IF n = "C" THEN [i \in 1..(fc + 1) |-> <<1>>] \o <<<<1, 2>>>>
                  ELSE [i \in 1..fd |-> <<3>>] \o <<<<1>>>>])

SpecP6 == InitP6 /\ [][Next]_vars

\* P7: four directly connected nodes; A homes page 1, B page 2, D page 3 and
\* C, of size 2 or more, homes nothing.  C writes page 1 and then page 3; B
\* first runs a number of operations on page 2 and then reads page 1 while
\* writing page 2; D runs operations on page 3.
InitP7 ==
    \E fb \in 0..(2 * MaxFill) : \E fc \in 0..1 : \E fd \in 0..1 :
    \E szc \in 2..MaxSize :
        Setup(ABCD,
              [n \in {"A", "B", "C", "D"} |-> IF n = "C" THEN szc ELSE MaxSize + 1],
              Direct(ABCD),
              [n \in {"A", "B", "C", "D"} |->
                  IF n = "A" THEN {1} ELSE IF n = "B" THEN {2}
                  ELSE IF n = "D" THEN {3} ELSE {}],
              [n \in {"A", "B", "C", "D"} |->
                  IF n = "A" THEN <<>>
                  ELSE IF n = "B" THEN [i \in 1..fb |-> <<2>>] \o <<<<1, 2>>>>
                  ELSE IF n = "C" THEN [i \in 1..(fc + 1) |-> <<1>>] \o <<<<3>>>>
                  ELSE [i \in 1..fd |-> <<3>>]])

SpecP7 == InitP7 /\ [][Next]_vars

\* Four directly connected nodes of size MaxSize + 1: A homes page 1, B page
\* 2, D page 3 and C homes nothing.  C writes page 1 and then reads page 2
\* while writing page 1 again (or runs a prefix of that program); D first
\* runs a number of operations on page 3 and then reads page 1 while writing
\* page 3.
InitP8 ==
    \E kc \in 0..2 : \E fd \in 0..(2 * MaxFill) :
        Setup(ABCD,
              [n \in {"A", "B", "C", "D"} |-> MaxSize + 1],
              Direct(ABCD),
              [n \in {"A", "B", "C", "D"} |->
                  IF n = "A" THEN {1} ELSE IF n = "B" THEN {2}
                  ELSE IF n = "D" THEN {3} ELSE {}],
              [n \in {"A", "B", "C", "D"} |->
                  IF n = "C" THEN SubSeq(<<<<1>>, <<2, 1>>>>, 1, kc)
                  ELSE IF n = "D" THEN [i \in 1..fd |-> <<3>>] \o <<<<1, 3>>>>
                  ELSE <<>>])

SpecP8 == InitP8 /\ [][Next]_vars

\* the operation records of one to three pages among pages 1 and 2, those
\* that list the same input page twice included
RepeatOps == UNION {[1..k -> {1, 2}] : k \in 1..3}

\* Three directly connected nodes of size MaxSize + 1: A homes page 1, B
\* homes page 2 and C homes nothing.  C runs one operation of RepeatOps and A
\* runs one, or none.
InitP9 ==
    \E opc \in RepeatOps : \E pa \in {<<>>} \cup {<<op>> : op \in RepeatOps} :
        Setup(ABC, [n \in {"A", "B", "C"} |-> MaxSize + 1], Direct(ABC),
              [n \in {"A", "B", "C"} |->
                  IF n = "A" THEN {1} ELSE IF n = "B" THEN {2} ELSE {}],
              [n \in {"A", "B", "C"} |->
                  IF n = "A" THEN pa ELSE IF n = "C" THEN <<opc>> ELSE <<>>])

SpecP9 == InitP9 /\ [][Next]_vars

\* Three directly connected nodes: A homes page 1, pages 1 and 3 or pages 1,
\* 3 and 5, B homes page 2 or pages 2 and 4, C homes nothing; A and B have
\* every size from the number of pages they home up to MaxSize + 1.  C runs
\* one operation on pages 1 and 2, or none.
InitP10 ==
    \E ha \in {{1}, {1, 3}, {1, 3, 5}} : \E hb \in {{2}, {2, 4}} :
    \E sa \in Cardinality(ha)..(MaxSize + 1) :
    \E sb \in Cardinality(hb)..(MaxSize + 1) :
    \E pcx \in {<<>>} \cup {<<op>> : op \in Ops} :
        Setup(ABC,
              [n \in {"A", "B", "C"} |->
                  IF n = "A" THEN sa ELSE IF n = "B" THEN sb ELSE MaxSize + 1],
              Direct(ABC),
              [n \in {"A", "B", "C"} |->
                  IF n = "A" THEN ha ELSE IF n = "B" THEN hb ELSE {}],
              [n \in {"A", "B", "C"} |-> IF n = "C" THEN pcx ELSE <<>>])

SpecP10 == InitP10 /\ [][Next]_vars

\* test_mesh_2x2
MeshNames == <<"TL", "TR", "BL", "BR">>

MeshTable ==
    [n \in {"TL", "TR", "BL", "BR"} |->
        CASE n = "TL" -> [d \in {"TR", "BL", "BR"} |-> IF d = "BL" THEN "BL" ELSE "TR"]
          [] n = "TR" -> [d \in {"TL", "BL", "BR"} |-> IF d = "BR" THEN "BR" ELSE "TL"]
          [] n = "BL" -> [d \in {"TR", "BR", "TL"} |-> IF d = "TL" THEN "TL" ELSE "BR"]
          [] n = "BR" -> [d \in {"TR", "BL", "TL"} |-> IF d = "BL" THEN "BL" ELSE "TR"]]

MeshHomed ==
    [n \in {"TL", "TR", "BL", "BR"} |->
        CASE n = "TL" -> 1..4 [] n = "TR" -> 5..8
          [] n = "BL" -> 9..12 [] n = "BR" -> 13..16]

MeshProgram ==
    [n \in {"TL", "TR", "BL", "BR"} |->
        CASE n = "TL" -> <<<<1, 2, 3>>, <<2, 4, 5>>, <<3, 1, 2>>, <<2, 3, 1>>>>
          [] n = "TR" -> <<<<5, 6, 7>>, <<6, 8, 9>>, <<7, 5, 6>>, <<2, 3, 1>>>>
          [] n = "BL" -> <<<<9, 10, 11>>, <<10, 12, 13>>, <<11, 9, 10>>, <<2, 3, 1>>>>
          [] n = "BR" -> <<<<13, 14, 15>>, <<14, 16, 1>>, <<15, 13, 14>>, <<2, 3, 1>>>>]

\* the test's network; every node runs the first k operations of its program
InitMesh ==
    \E k \in 0..Len(MeshProgram["TL"]) :
        Setup(MeshNames, [n \in {"TL", "TR", "BL", "BR"} |-> 8], MeshTable, MeshHomed,
              [n \in {"TL", "TR", "BL", "BR"} |-> SubSeq(MeshProgram[n], 1, k)])

\* NoC.mainloop keeps calling NoC.cycle as long as a node is not done
FairSpecMesh == InitMesh /\ [][Next]_vars /\ WF_vars(Next)

----------------------------------------------------------------------------
(* Properties *)

AllPages == DOMAIN home

\* the nodes whose directory state for page p is v
Holding(p, v) == {n \in Nodes : Flag(Cur, n, p) = v}

\* C1 (single writer): in every reachable state, for every page at most one
\* node has directory state MODIFIED for that page.
SingleWriter ==
    \A p \in AllPages : Cardinality(Holding(p, MODIFIED)) <= 1

\* a run has ended normally in which a page is MODIFIED at a node that is
\* not its home: the write permission has moved
SingleWriterWitness ==
    /\ pc = "done"
    /\ \E p \in AllPages : \E n \in Nodes \ {home[p]} :
          /\ Holding(p, MODIFIED) = {n}
          /\ p \in DOMAIN flags[home[p]]

\* C2 (exclusive bookkeeping): in every reachable state, if a node other
\* than the page's home holds a page MODIFIED, then the home's own state for
\* the page is INVALID and the home's presence set for the page is exactly
\* the singleton of that node.
ExclusiveBookkeeping ==
    \A p \in AllPages : \A n \in Nodes \ {home[p]} :
        Flag(Cur, n, p) = MODIFIED =>
            /\ Flag(Cur, home[p], p) = INVALID
            /\ presence[home[p]][p] = {n}

\* a non-home node holds a page MODIFIED that another non-home node has
\* held before it
ExclusiveBookkeepingWitness ==
    \E p \in AllPages : \E n \in Nodes \ {home[p]} :
        /\ Flag(Cur, n, p) = MODIFIED
        /\ \E m \in Nodes \ {home[p], n} : SeqHas(lru[m], p)

\* the packets on their way: in transit, taken by the running cycle, or
\* deferred in an awaiting queue
RECURSIVE SeqPackets(_)
SeqPackets(q) == IF q = <<>> THEN {} ELSE {Head(q)} \cup SeqPackets(Tail(q))

PacketsOnTheWay ==
    {x[1] : x \in SeqPackets(in_transit) \cup SeqPackets(awaiting_transit)}
        \cup SeqPackets(todo)
        \cup UNION {SeqPackets(awaiting[n]) : n \in Nodes}

EndOfCycle == pc \in {"mainloop", "done"}

\* C3 (home reflects sharers): at the end of every cycle, if any node holds
\* a page SHARED, then the page's home holds it SHARED too and the home's
\* presence set for the page contains the home and every node holding it
\* SHARED, also while a REMOTE_READ / REMOTE_REPLY exchange is in progress.
HomeReflectsSharers ==
    EndOfCycle =>
        \A p \in AllPages :
            Holding(p, SHARED) # {} =>
                /\ Flag(Cur, home[p], p) = SHARED
                /\ home[p] \in presence[home[p]][p]
                /\ Holding(p, SHARED) \subseteq presence[home[p]][p]

\* the pages node n holds
Resident(n) == {p \in DOMAIN flags[n] : flags[n][p] # INVALID}

PresenceAccuracy ==
    \A p \in AllPages :
        (/\ \A packet \in PacketsOnTheWay : packet.page # p
         /\ p \notin frozen[home[p]])
        => presence[home[p]][p] = {n \in Nodes : Flag(Cur, n, p) # INVALID}

\* the home n of page p is about to handle the INVALIDATE(p) of node l, in
\* the situation of S3: l and the home hold p SHARED, presence is {l, home},
\* and l has started an operation whose output is p
WriteUpgradeArrives(l, n, p) ==
    /\ pc = "dispatch"
    /\ todo # <<>>
    /\ n = names[cur]
    /\ Head(todo) = NewPacket("INVALIDATE", p, l, n, None)
    /\ n = home[p]
    /\ l # n
    /\ Flag(Cur, l, p) = SHARED
    /\ Flag(Cur, n, p) = SHARED
    /\ presence[n][p] = {l, n}
    /\ locked[l] # <<>>
    /\ locked[l][Len(locked[l])] = p
    /\ p \notin frozen[n]
    /\ ~SeqHas(locked[n], p)

\* C4 (write upgrade, S3): when the home handles the INVALIDATE of a
\* non-home node l that holds page p SHARED, with the home holding it SHARED
\* and presence = {l, home}, the handling raises no error, the home's state
\* for p becomes INVALID, presence becomes {l}, INVALIDATE_ACKNOWLEDGE(p) is
\* emitted to l and the page is not left frozen.
WriteUpgradeHandled ==
    [][\A p \in AllPages : \A l \in Nodes :
          WriteUpgradeArrives(l, home[p], p) =>
              /\ err' = NoErr
              /\ flags'[home[p]][p] = INVALID
              /\ presence'[home[p]][p] = {l}
              /\ \E i \in 1..Len(in_transit') :
                    in_transit'[i][1] =
                        NewPacket("INVALIDATE_ACKNOWLEDGE", p, home[p], l, None)
              /\ p \notin frozen'[home[p]]]_vars

\* S4: home B has started the operation that reads and writes its homed
\* page 2, which it holds SHARED together with the remote sharers A and C
HomeWriteStarted ==
    /\ locked["B"] = <<2, 2>>
    /\ Holding(2, SHARED) = {"A", "B", "C"}
    /\ presence["B"][2] = {"A", "B", "C"}

\* C5 (home writes its own shared page, S4): when home B holds its homed
\* page SHARED together with remote sharers A and C and starts an operation
\* whose input and output is that page, the operation eventually completes:
\* B's locked set becomes empty with the page MODIFIED at B.
HomeWriteCompletes ==
    HomeWriteStarted ~> (locked["B"] = <<>> /\ Flag(Cur, "B", 2) = MODIFIED)

\* C6 (two-node read, S2): with A and B both of size 2 and A's program
\* [[2,1]], no handler fails, the trace is READ_MISS(2) from A to B in cycle 0
\* and REPLY(2) from B to A in cycle 1, A's operation is complete after
\* cycle 2, and the run ends with B holding page 2 SHARED with presence
\* {A, B}, A holding page 2 SHARED and A still holding its homed page 1.
TwoNodeRead ==
    (size["A"] = 2 /\ size["B"] = 2) =>
        /\ pc # "crashed"
        /\ cycle_counter >= 3 => is_done("A")
        /\ pc = "done" =>
            /\ buffer = <<
                 <<NewPacket("READ_MISS", 2, "A", "B", None), "A", "B", 0>>,
                 <<NewPacket("REPLY", 2, "B", "A", None), "B", "A", 1>> >>
            /\ Flag(Cur, "B", 2) = SHARED
            /\ presence["B"][2] = {"A", "B"}
            /\ Flag(Cur, "A", 2) = SHARED
            /\ Flag(Cur, "A", 1) # INVALID

\* C7 (2x2 mesh test): with the four operations of the test's programs at
\* every node, mainloop eventually finds every node done, without any
\* handler assertion or exception.
MeshTerminates ==
    (\A n \in {"TL", "TR", "BL", "BR"} : program[n] = MeshProgram[n])
        => <>(pc = "done")

\* S5: node n of size 2 homes none of the pages 10, 11, 12 and holds exactly
\* page 10 MODIFIED and page 11 SHARED
EvictionScenario(n) ==
    /\ size[n] = 2
    /\ homed_pages[n] \cap {10, 11, 12} = {}
    /\ Flag(Cur, n, 10) = MODIFIED
    /\ Flag(Cur, n, 11) = SHARED
    /\ Resident(n) = {10, 11}

\* the LRU-oldest page of q among the pages S
RECURSIVE Oldest(_, _)
Oldest(q, S) ==
    IF q = <<>> THEN 0 ELSE IF Head(q) \in S THEN Head(q) ELSE Oldest(Tail(q), S)

\* C9 (eviction scenario, S5): when a node of size 2 holding pages 10
\* (MODIFIED) and 11 (SHARED), neither of them homed, receives page 12,
\* exactly one page is evicted, the LRU-oldest one; its state becomes INVALID
\* and EVICTION_SAVE(10) respectively EVICTION_NOTICE(11) is emitted to its
\* home; and when the home handles EVICTION_SAVE(10) its presence set for
\* page 10 becomes {home} with its own state INVALID.
EvictionOnAdd ==
    [][/\ \A n \in Nodes :
            (EvictionScenario(n) /\ 12 \in DOMAIN flags'[n] /\ flags'[n][12] # INVALID)
            => LET victim == Oldest(lru[n], {10, 11}) IN
               /\ {q \in DOMAIN flags'[n] : flags'[n][q] # INVALID}
                     = ({10, 11} \ {victim}) \cup {12}
               /\ \E i \in 1..Len(in_transit') :
                     in_transit'[i][1] =
                        NewPacket(IF victim = 10 THEN "EVICTION_SAVE"
                                  ELSE "EVICTION_NOTICE",
                                  victim, n, home[victim], None)
       /\ (/\ pc = "dispatch"
           /\ todo # <<>>
           /\ Head(todo).action = "EVICTION_SAVE"
           /\ Head(todo).page = 10
           /\ Head(todo).destination = names[cur])
          => /\ presence'[names[cur]][10] = {names[cur]}
             /\ flags'[names[cur]][10] = INVALID]_vars

\* the packets NoC.send has logged that announce an eviction
IsEviction(packet) == packet.action \in {"EVICTION_SAVE", "EVICTION_NOTICE"}

\* C11 (home never evicts homed pages): every EVICTION_SAVE and
\* EVICTION_NOTICE that was emitted is for a page that its source does not
\* home, and in every state, at every node, a call of Directory.evict leaves
\* the state of every page homed at the node as it is, emits no
\* EVICTION_SAVE or EVICTION_NOTICE for such a page, and the page it takes
\* off the LRU list to evict is not homed at the node.
HomeNeverEvictsHomed ==
    /\ \A n \in Nodes :
          (EvictCount(Cur, n) = size[n] /\ FirstNotHomed(lru[n], n, 1) # 0)
              => lru[n][FirstNotHomed(lru[n], n, 1)] \notin homed_pages[n]
    /\ \A i \in 1..Len(buffer) :
          IsEviction(buffer[i][1])
              => buffer[i][1].page \notin homed_pages[buffer[i][1].source]
    /\ \A n \in Nodes : \A p \in homed_pages[n] :
          /\ Flag(evict(Cur, n, <<>>), n, p) = Flag(Cur, n, p)
          /\ \A i \in (Len(buffer) + 1)..Len(evict(Cur, n, <<>>).buffer) :
                ~(/\ IsEviction(evict(Cur, n, <<>>).buffer[i][1])
                  /\ evict(Cur, n, <<>>).buffer[i][1].page = p)

\* a node that holds a page it homes in its LRU list has just evicted a
\* page in the current cycle
HomeNeverEvictsHomedWitness ==
    /\ err = NoErr
    /\ buffer # <<>>
    /\ IsEviction(buffer[Len(buffer)][1])
    /\ buffer[Len(buffer)][4] = cycle_counter
    /\ \E p \in homed_pages[buffer[Len(buffer)][2]] :
          /\ Flag(Cur, buffer[Len(buffer)][2], p) # INVALID
          /\ SeqHas(lru[buffer[Len(buffer)][2]], p)
          /\ Flag(Cur, buffer[Len(buffer)][2], buffer[Len(buffer)][1].page) = INVALID

\* with the page states f, node n holds every input page of operation op and
\* holds its output page MODIFIED
OperationReady(f, n, op) ==
    /\ \A i \in 1..(Len(op) - 1) :
          op[i] \in DOMAIN f[n] /\ f[n][op[i]] # INVALID
    /\ op[Len(op)] \in DOMAIN f[n]
    /\ f[n][op[Len(op)]] = MODIFIED

\* C12 (lock monotonicity): the locked list of a node becomes non-empty only
\* by dequeuing one operation from its program, which happens only when the
\* list is empty and locks exactly the pages of that operation; and it
\* becomes empty again (or stays empty over a dequeue, when the operation
\* completes at once) only with every input page of the operation held and
\* its output page MODIFIED at the node: one clearing per operation dequeued.
LockMonotonicity ==
    [][\A n \in Nodes :
          /\ (locked[n] # <<>> /\ locked'[n] = <<>>)
                => /\ OperationReady(flags', n, locked[n])
                   /\ program'[n] = program[n]
          /\ (locked[n] # <<>> /\ locked'[n] # <<>>)
                => (locked'[n] = locked[n] /\ program'[n] = program[n])
          /\ (program'[n] # program[n])
                => /\ locked[n] = <<>>
                   /\ program[n] # <<>>
                   /\ program'[n] = Tail(program[n])
                   /\ \/ locked'[n] = Head(program[n])
                      \/ /\ locked'[n] = <<>>
                         /\ OperationReady(flags', n, Head(program[n]))
          /\ (locked[n] = <<>> /\ locked'[n] # <<>>)
                => program'[n] # program[n]]_vars

\* a node has completed an operation for which it had to get the write lock
\* of a page homed elsewhere
LockMonotonicityWitness ==
    /\ err = NoErr
    /\ \E n \in Nodes : \E i \in 1..Len(buffer) :
          /\ buffer[i][1].action = "READ_INVALIDATE_ACKNOWLEDGE"
          /\ buffer[i][1].destination = n
          /\ buffer[i][1].page \notin homed_pages[n]
          /\ Flag(Cur, n, buffer[i][1].page) = MODIFIED
          /\ locked[n] = <<>>

\* the acknowledgement that answers a REMOTE_INVALIDATE or a
\* REMOTE_READ_INVALIDATE, and the packet with which the home completes the
\* transaction
AcknowledgeOf(action) ==
    IF action = "REMOTE_INVALIDATE" THEN "REMOTE_INVALIDATE_ACKNOWLEDGE"
    ELSE "REMOTE_READ_INVALIDATE_ACKNOWLEDGE"

CompletionOf(action) ==
    IF action = "REMOTE_INVALIDATE" THEN "INVALIDATE_ACKNOWLEDGE"
    ELSE "READ_INVALIDATE_ACKNOWLEDGE"

\* buffer[j] is the first packet after buffer[i] with which the home that
\* sent the REMOTE_INVALIDATE or REMOTE_READ_INVALIDATE buffer[i] completes
\* the transaction of the embedded requester
CompletesAt(i, j) ==
    /\ i < j
    /\ buffer[i][1].action \in {"REMOTE_INVALIDATE", "REMOTE_READ_INVALIDATE"}
    /\ buffer[j][1] = NewPacket(CompletionOf(buffer[i][1].action), buffer[i][1].page,
                                buffer[i][1].source, buffer[i][1].embedded, None)
    /\ \A k \in (i + 1)..(j - 1) : buffer[k][1] # buffer[j][1]

\* C13 (ack symmetry): for every REMOTE_INVALIDATE and REMOTE_READ_INVALIDATE
\* that a home has sent for page P on behalf of requester L, when the home
\* sends the INVALIDATE_ACKNOWLEDGE or READ_INVALIDATE_ACKNOWLEDGE that
\* completes the transaction, exactly one matching acknowledgement (page P,
\* from the destination of that packet, embedding L) has been sent to the
\* home since, in an earlier cycle, so that the home has handled it.
AckSymmetry ==
    \A i, j \in 1..Len(buffer) :
        CompletesAt(i, j) =>
            Cardinality({k \in (i + 1)..(j - 1) :
                /\ buffer[k][1] = NewPacket(AcknowledgeOf(buffer[i][1].action),
                                            buffer[i][1].page,
                                            buffer[i][1].destination,
                                            buffer[i][1].source,
                                            buffer[i][1].embedded)
                /\ buffer[k][4] < buffer[j][4]}) = 1

\* the packets that are still to be handled, in a state in which a node is
\* about to handle the first packet of todo: in transit, taken by the
\* running cycle for a later node, later in todo, or in an awaiting queue
PendingPackets ==
    {x[1] : x \in SeqPackets(in_transit)}
        \cup {x[1] : x \in {y \in SeqPackets(awaiting_transit) :
                                \E i \in (cur + 1)..Len(names) : names[i] = y[2]}}
        \cup SeqPackets(Tail(todo))
        \cup UNION {SeqPackets(awaiting[n]) : n \in Nodes}

\* packet is the last outstanding acknowledgement of the transaction that
\* froze its page at home n
LastOutstanding(n, packet) ==
    /\ packet.destination = n
    /\ packet.page \in frozen[n]
    /\ \/ packet.action = "REMOTE_REPLY"
       \/ /\ packet.action \in {"REMOTE_INVALIDATE_ACKNOWLEDGE",
                                 "REMOTE_READ_INVALIDATE_ACKNOWLEDGE"}
          /\ \A x \in PendingPackets :
                x.page = packet.page =>
                    /\ ~(/\ x.action \in {"REMOTE_INVALIDATE", "REMOTE_READ_INVALIDATE"}
                         /\ x.source = n)
                    /\ ~(/\ x.action \in {"REMOTE_INVALIDATE_ACKNOWLEDGE",
                                           "REMOTE_READ_INVALIDATE_ACKNOWLEDGE"}
                         /\ x.destination = n)

\* an order in which a handler of node n iterates over the presence set of
\* the page of packet, in state s
SomeOrder(s, n, packet) ==
    IF packet.page \in DOMAIN s.presence[n]
    THEN CHOOSE f \in Permutations_(s.presence[n][packet.page]) : TRUE
    ELSE <<>>

\* Node.cycle hands the awaiting packets q to the router one after the other
RECURSIVE Redispatch(_, _, _)
Redispatch(s, n, q) ==
    IF q = <<>> THEN s
    ELSE Redispatch(message(s, n, Head(q), SomeOrder(s, n, Head(q))), n, Tail(q))

\* in the state s that the awaiting packets before the i-th have left,
\* node n does not defer the i-th awaiting packet again
Served(s, n, packet) ==
    s.err = NoErr =>
        message(s, n, packet, SomeOrder(s, n, packet)).awaiting[n]
            # Append(s.awaiting[n], packet)

\* C14 (progress of deferral): when the home has handled the REMOTE_REPLY,
\* or the last outstanding REMOTE_INVALIDATE_ACKNOWLEDGE or
\* REMOTE_READ_INVALIDATE_ACKNOWLEDGE, of the transaction that froze a page,
\* the page is no longer frozen at the home; and a packet that is in the
\* awaiting queue of a node at the start of its cycle, for a page that is by
\* then neither frozen nor locked at the node, is handled in that cycle
\* instead of being deferred again.
DeferralProgress ==
    [][/\ (/\ pc = "dispatch"
           /\ todo # <<>>
           /\ LastOutstanding(names[cur], Head(todo))
           /\ err' = NoErr)
          => Head(todo).page \notin frozen'[names[cur]]
       /\ (pc = "node" /\ pc' = "dispatch")
          => \A i \in 1..Len(awaiting[names[cur]]) :
                (/\ awaiting[names[cur]][i].action
                        \in {"READ_MISS", "READ_INVALIDATE", "INVALIDATE"}
                 /\ awaiting[names[cur]][i].page \notin frozen'[names[cur]]
                 /\ ~SeqHas(locked'[names[cur]], awaiting[names[cur]][i].page))
                => Served(Redispatch([Cur EXCEPT !.awaiting[names[cur]] = <<>>]',
                                     names[cur],
                                     SubSeq(awaiting[names[cur]], 1, i - 1)),
                          names[cur], awaiting[names[cur]][i])]_vars

\* every node has an empty program and an empty locked list
NothingLeft(prog, lck) == \A n \in Nodes : prog[n] = <<>> /\ lck[n] = <<>>

\* C15 (termination criterion, S6): whenever mainloop tests its condition,
\* it returns if every node has an empty program and an empty locked list,
\* and otherwise calls cycle once more, which it does for ever when some
\* locked list never becomes empty; and it returns in no other way, so that
\* when it has returned no node has an operation pending or in flight.
TerminationCriterion ==
    [][/\ pc = "mainloop" =>
             IF NothingLeft(program, locked)
             THEN pc' = "done"
             ELSE pc' = "node" /\ cur' = 1 /\ awaiting_transit' = in_transit
       /\ pc' = "done" =>
             /\ pc = "mainloop"
             /\ NothingLeft(program, locked)
             /\ NothingLeft(program', locked')]_vars

\* mainloop has returned after at least two cycles in which packets were sent
TerminationCriterionWitness ==
    /\ pc = "done"
    /\ cycle_counter >= 2
    /\ buffer # <<>>
    /\ NothingLeft(program, locked)

\* C16 (local hit, S1): when a node dequeues an operation of which it holds
\* every input page and holds the output page MODIFIED, the operation
\* completes in the step that dequeues it: no exception is raised, no packet
\* is sent, the cycle counter is the same and the locked list of the node is
\* empty; and the list stays empty until the end of that cycle.
LocalHit ==
    [][/\ (/\ pc = "node"
           /\ locked[names[cur]] = <<>>
           /\ program[names[cur]] # <<>>
           /\ OperationReady(flags, names[cur], Head(program[names[cur]])))
          => /\ program'[names[cur]] = Tail(program[names[cur]])
             /\ locked'[names[cur]] = <<>>
             /\ err' = NoErr
             /\ buffer' = buffer
             /\ in_transit' = in_transit
             /\ cycle_counter' = cycle_counter
       /\ (pc = "dispatch" /\ locked[names[cur]] = <<>>)
          => locked'[names[cur]] = <<>>]_vars

\* mainloop has returned after one cycle in which no packet was sent: every
\* operation of the programs was a local hit of cycle 0
LocalHitWitness ==
    /\ pc = "done"
    /\ cycle_counter = 1
    /\ buffer = <<>>

\* the number of hops of the route from node a to node b
RECURSIVE Hops(_, _)
Hops(a, b) == IF a = b THEN 0 ELSE 1 + Hops(table[a][b], b)

\* C17 (hop timing): when a node starts its cycle c, the packets handed to
\* it are, after those of its awaiting queue, the packets that were sent to
\* it as hop-destination in cycle c - 1, all of them and no packet sent in
\* cycle c; such a packet whose logical destination is the node was first
\* sent by its source h cycles before, h being the number of hops of its
\* route; and a packet sent in cycle k to a node that is not its logical
\* destination has been sent on by that node in cycle k + 1, once that
\* cycle has been run.
HopTiming ==
    [][/\ (pc = "node" /\ pc' = "dispatch" /\ cycle_counter < MaxCycle)
          => /\ \A i \in 1..Len(buffer) :
                   (buffer[i][3] = names[cur] /\ buffer[i][4] = cycle_counter - 1)
                   => /\ SeqHas(todo', buffer[i][1])
                      /\ buffer[i][1].destination = names[cur]
                         => \E j \in 1..Len(buffer) :
                               /\ buffer[j][1] = buffer[i][1]
                               /\ buffer[j][2] = buffer[i][1].source
                               /\ buffer[j][4] = cycle_counter
                                     - Hops(buffer[i][1].source, names[cur])
             /\ \A k \in 1..Len(todo') :
                   \/ SeqHas(awaiting[names[cur]], todo'[k])
                   \/ todo'[k].source = names[cur]
                   \/ \E i \in 1..Len(buffer) :
                         /\ buffer[i][1] = todo'[k]
                         /\ buffer[i][3] = names[cur]
                         /\ buffer[i][4] = cycle_counter - 1
       /\ \A i \in 1..Len(buffer) :
             (/\ buffer[i][1].destination # buffer[i][3]
              /\ buffer[i][4] + 1 < cycle_counter)
             => \E j \in 1..Len(buffer) :
                   /\ buffer[j][1] = buffer[i][1]
                   /\ buffer[j][2] = buffer[i][3]
                   /\ buffer[j][3] = table[buffer[i][3]][buffer[i][1].destination]
                   /\ buffer[j][4] = buffer[i][4] + 1]_vars

\* a node is about to handle a packet that was sent to it over two hops,
\* two cycles after its source sent it
HopTimingWitness ==
    /\ pc = "dispatch"
    /\ todo # <<>>
    /\ cycle_counter < MaxCycle
    /\ Head(todo).destination = names[cur]
    /\ Hops(Head(todo).source, names[cur]) = 2
    /\ \E i, j \in 1..Len(buffer) :
          /\ buffer[i][1] = Head(todo)
          /\ buffer[i][2] = Head(todo).source
          /\ buffer[i][4] = cycle_counter - 2
          /\ buffer[j][1] = Head(todo)
          /\ buffer[j][3] = names[cur]
          /\ buffer[j][4] = cycle_counter - 1

\* the packets of the sequence q of NoC.in_transit entries whose
\* hop-destination is n, in their order
FreshArrivals(q, n) ==
    [i \in 1..Len(SelectSeq(q, LAMBDA x : x[2] = n)) |->
        SelectSeq(q, LAMBDA x : x[2] = n)[i][1]]

\* sequence a is the beginning of sequence b
IsPrefix(a, b) == Len(a) <= Len(b) /\ SubSeq(b, 1, Len(a)) = a

\* C18 (per-cycle ordering at a node): Node.cycle first starts a new
\* operation exactly if the locked list is empty and the program is not;
\* the packets it then hands to the router are those of its awaiting queue
\* in their order (with those that starting the operation has deferred),
\* followed by the packets that arrived for the node in their order of
\* arrival; it hands them over one by one from the first; and a packet that
\* is deferred goes to the end of the awaiting queue, so that the packets
\* deferred again keep their order and come before those deferred for the
\* first time.
PerCycleOrdering ==
    [][/\ pc = "node"
          => /\ (program'[names[cur]] # program[names[cur]])
                  <=> (locked[names[cur]] = <<>> /\ program[names[cur]] # <<>>)
             /\ pc' = "dispatch"
                  => /\ awaiting'[names[cur]] = <<>>
                     /\ IsPrefix(awaiting[names[cur]], todo')
                     /\ Len(todo') >= Len(awaiting[names[cur]])
                           + Len(FreshArrivals(awaiting_transit, names[cur]))
                     /\ SubSeq(todo',
                               Len(todo') + 1
                                 - Len(FreshArrivals(awaiting_transit, names[cur])),
                               Len(todo'))
                           = FreshArrivals(awaiting_transit, names[cur])
       /\ (pc = "dispatch" /\ todo # <<>>)
          => /\ todo' = Tail(todo)
             /\ program' = program
             /\ IsPrefix(awaiting[names[cur]], awaiting'[names[cur]])
             /\ \A k \in (Len(awaiting[names[cur]]) + 1)
                              ..Len(awaiting'[names[cur]]) :
                   \/ awaiting'[names[cur]][k] = Head(todo)
                   \/ awaiting'[names[cur]][k].source = names[cur]]_vars

\* at the end of the cycle of a node its awaiting queue holds a packet that
\* was deferred again before a packet that arrived in this cycle and was
\* deferred for the first time
PerCycleOrderingWitness ==
    /\ pc = "dispatch"
    /\ todo = <<>>
    /\ cycle_counter < MaxCycle
    /\ Len(awaiting[names[cur]]) = 2
    /\ awaiting[names[cur]][1] # awaiting[names[cur]][2]
    /\ \E i, j \in 1..Len(buffer) :
          /\ buffer[i][1] = awaiting[names[cur]][1]
          /\ buffer[i][4] < cycle_counter - 1
          /\ buffer[j][1] = awaiting[names[cur]][2]
          /\ buffer[j][4] = cycle_counter - 1

\* C19 (determinism of the trace): the packets that handling a packet adds
\* to the trace, in their order, are the same for every order in which the
\* handler can iterate over the presence set; the programs, the home map
\* and the topology then determine the whole ordered trace, the order of
\* the REMOTE_INVALIDATE and REMOTE_READ_INVALIDATE packets that a home
\* sends to several copy holders in one handler call included.
TraceDeterminism ==
    (pc = "dispatch" /\ todo # <<>>)
        => \A o1, o2 \in IterationOrders(names[cur], Head(todo)) :
              message(Cur, names[cur], Head(todo), o1).buffer
                  = message(Cur, names[cur], Head(todo), o2).buffer

\* C20 (no redundant READ_MISS): a READ_MISS enters the trace from its
\* source only in the step in which the source starts an operation; the
\* state of the page at the source is INVALID before and after that step,
\* and the page is an input page of the operation and is not its output
\* page.
NoRedundantReadMiss ==
    [][\A i \in (Len(buffer) + 1)..Len(buffer') :
          (/\ buffer'[i][1].action = "READ_MISS"
           /\ buffer'[i][2] = buffer'[i][1].source)
          => /\ pc = "node"
             /\ buffer'[i][1].source = names[cur]
             /\ program[names[cur]] # <<>>
             /\ locked'[names[cur]] = Head(program[names[cur]])
             /\ Flag(Cur, names[cur], buffer'[i][1].page) = INVALID
             /\ flags'[names[cur]][buffer'[i][1].page] = INVALID
             /\ buffer'[i][1].page # locked'[names[cur]][Len(locked'[names[cur]])]
             /\ \E k \in 1..(Len(locked'[names[cur]]) - 1) :
                   locked'[names[cur]][k] = buffer'[i][1].page]_vars

\* a node has just started an operation and sent a READ_MISS for an input
\* page, while it holds another page of that operation
NoRedundantReadMissWitness ==
    /\ pc = "dispatch"
    /\ err = NoErr
    /\ buffer # <<>>
    /\ buffer[Len(buffer)][1].action = "READ_MISS"
    /\ buffer[Len(buffer)][1].source = names[cur]
    /\ buffer[Len(buffer)][4] = cycle_counter
    /\ cycle_counter < MaxCycle
    /\ Flag(Cur, names[cur], buffer[Len(buffer)][1].page) = INVALID
    /\ SeqHas(locked[names[cur]], buffer[Len(buffer)][1].page)
    /\ \E p \in DOMAIN flags[names[cur]] :
          /\ flags[names[cur]][p] # INVALID
          /\ SeqHas(locked[names[cur]], p)

\* C21 (one operation in flight per node): a node takes an operation off its
\* program only when its locked list is empty; while the list is non-empty
\* the program is unchanged; and the list is non-empty exactly while an
\* operation is in flight: it is set to the page sequence of the operation
\* dequeued, keeps that value, and is emptied only as a whole.
OneOperationInFlight ==
    [][\A n \in Nodes :
          /\ program'[n] # program[n]
                => /\ locked[n] = <<>>
                   /\ program[n] # <<>>
                   /\ program'[n] = Tail(program[n])
                   /\ locked'[n] \in {Head(program[n]), <<>>}
          /\ locked[n] # <<>>
                => /\ program'[n] = program[n]
                   /\ locked'[n] \in {locked[n], <<>>}
          /\ locked'[n] # locked[n]
                => \/ program'[n] # program[n]
                   \/ locked'[n] = <<>>]_vars

\* a node visited in a later cycle than the one in which it sent the request
\* of its operation, the operation still in flight and operations left in
\* its program
OneOperationInFlightWitness ==
    /\ err = NoErr
    /\ pc = "dispatch"
    /\ locked[names[cur]] # <<>>
    /\ program[names[cur]] # <<>>
    /\ Len(locked[names[cur]]) = 2
    /\ \E i \in 1..Len(buffer) :
          /\ buffer[i][1].source = names[cur]
          /\ buffer[i][1].action \in {"READ_MISS", "READ_INVALIDATE", "INVALIDATE"}
          /\ SeqHas(locked[names[cur]], buffer[i][1].page)
          /\ buffer[i][4] < cycle_counter

\* C22 (locked pages are protected): a page of a node's locked list that the
\* node holds is not set to INVALID at that node while the list stays
\* non-empty, that is before the operation in flight completes.
LockedPagesProtected ==
    [][\A n \in Nodes : \A p \in AllPages :
          (/\ SeqHas(locked[n], p)
           /\ Flag(Cur, n, p) # INVALID
           /\ locked'[n] # <<>>)
             => Flag(Cur, n, p)' # INVALID]_vars

\* C23 (LRU consistency): in every reachable state in which no exception was
\* raised, the LRU list of a node contains exactly the pages that the node
\* holds with a state other than INVALID, each of them once.
LruConsistency ==
    err = NoErr =>
        \A n \in Nodes :
            /\ {lru[n][i] : i \in 1..Len(lru[n])} = Resident(n)
            /\ \A i, j \in 1..Len(lru[n]) : lru[n][i] = lru[n][j] => i = j

\* C24 (lossless network): every packet emitted through a router reaches the
\* node named in its logical destination and is handled there once: when
\* the run has ended no packet is left in the in-transit queue; NoC.cycle
\* takes the whole queue, hands every node exactly the packets whose hop
\* ends at it, each once and in order, and a node that is not the logical
\* destination of a packet sends it on by one hop, once.
LosslessNetwork ==
    /\ [](pc = "done" => in_transit = <<>>)
    /\ [][/\ (pc = "mainloop" /\ pc' = "node")
                => (awaiting_transit' = in_transit /\ in_transit' = <<>>)
          /\ (pc = "node" /\ pc' = "dispatch")
                => /\ Len(todo') >=
                         Len(FreshArrivals(awaiting_transit, names[cur]))
                   /\ SubSeq(todo',
                             Len(todo') + 1
                               - Len(FreshArrivals(awaiting_transit, names[cur])),
                             Len(todo'))
                         = FreshArrivals(awaiting_transit, names[cur])
          /\ (pc = "dispatch" /\ todo # <<>> /\ err' = NoErr
                /\ Head(todo).destination # names[cur])
                => in_transit' =
                      Append(in_transit,
                             <<Head(todo),
                               table[names[cur]][Head(todo).destination]>>)
         ]_vars

\* C25 (eviction trigger): when a node handles a REPLY or a
\* READ_INVALIDATE_ACKNOWLEDGE, whose handlers begin with Directory.add, a
\* page is evicted (set to INVALID at the node, or announced to its home by
\* EVICTION_SAVE or EVICTION_NOTICE) only if just before the node held
\* exactly size pages with a state other than INVALID; with fewer pages held
\* nothing is evicted, no eviction packet is emitted and add returns.
EvictionTrigger ==
    [][(/\ pc = "dispatch"
        /\ todo # <<>>
        /\ Head(todo).action \in {"REPLY", "READ_INVALIDATE_ACKNOWLEDGE"}
        /\ Head(todo).destination = names[cur])
       => /\ (\/ \E q \in AllPages :
                    /\ Flag(Cur, names[cur], q) # INVALID
                    /\ Flag(Cur, names[cur], q)' = INVALID
              \/ \E i \in (Len(buffer) + 1)..Len(buffer') :
                    /\ IsEviction(buffer'[i][1])
                    /\ buffer'[i][1].source = names[cur])
                => Cardinality(Resident(names[cur])) = size[names[cur]]
          /\ Cardinality(Resident(names[cur])) < size[names[cur]]
                => err' = NoErr
      ]_vars

\* packet q, handled at node n, meets the condition under which its handler
\* defers it: READ_MISS on a frozen page, INVALIDATE or READ_INVALIDATE on a
\* page frozen or locked at the home, REMOTE_INVALIDATE or
\* REMOTE_READ_INVALIDATE on a page locked at the remote
DeferralCase(q, n) ==
    \/ q.action = "READ_MISS" /\ q.page \in frozen[n]
    \/ /\ q.action \in {"INVALIDATE", "READ_INVALIDATE"}
       /\ (q.page \in frozen[n] \/ SeqHas(locked[n], q.page))
    \/ /\ q.action \in {"REMOTE_INVALIDATE", "REMOTE_READ_INVALIDATE"}
       /\ SeqHas(locked[n], q.page)

RemoteOwner(p, l) ==
    IF \E r \in Nodes \ {l, home[p]} : Flag(Cur, r, p) = MODIFIED
    THEN CHOOSE r \in Nodes \ {l, home[p]} : Flag(Cur, r, p) = MODIFIED
    ELSE None

\* the log of NoC.send holds a REMOTE_REPLY for page p from r to the home
\* of p that embeds l
RemoteReplied(p, r, l) ==
    \E i \in 1..Len(buffer) :
        buffer[i][1] = NewPacket("REMOTE_REPLY", p, r, home[p], l)

Emitted == SeqPackets(SubSeq(in_transit', Len(in_transit) + 1, Len(in_transit')))

\* node n is about to handle the READ_INVALIDATE q of a write-miss
\* transaction: n is the home of the page, the requester is another node
\* and lacks the page, the page is neither frozen nor locked at n, and the
\* presence members, the requester not among them, all hold the page and
\* none has it locked
WriteMissStarts(q, n) ==
    /\ q.action = "READ_INVALIDATE"
    /\ home[q.page] = n
    /\ q.source # n
    /\ Flag(Cur, q.source, q.page) = INVALID
    /\ q.page \notin frozen[n]
    /\ ~SeqHas(locked[n], q.page)
    /\ q.page \in DOMAIN presence[n]
    /\ presence[n][q.page] # {}
    /\ q.source \notin presence[n][q.page]
    /\ \A m \in presence[n][q.page] :
          Flag(Cur, m, q.page) # INVALID /\ ~SeqHas(locked[m], q.page)

\* every REMOTE_READ_INVALIDATE for page p that home n has sent on behalf of
\* l since it last completed a transaction of l on p has been answered by
\* a REMOTE_READ_INVALIDATE_ACKNOWLEDGE of its destination
AllAcknowledged(p, n, l) ==
    \A i \in 1..Len(buffer) :
        (/\ buffer[i][1].action = "REMOTE_READ_INVALIDATE"
         /\ buffer[i][1].page = p
         /\ buffer[i][1].source = n
         /\ buffer[i][1].embedded = l
         /\ \A k \in (i + 1)..Len(buffer) :
               buffer[k][1] # NewPacket("READ_INVALIDATE_ACKNOWLEDGE", p, n, l, None))
        => \E k \in (i + 1)..Len(buffer) :
              buffer[k][1] = NewPacket("REMOTE_READ_INVALIDATE_ACKNOWLEDGE", p,
                                       buffer[i][1].destination, n, l)

SoleHolderReadInvalidate ==
    [][(/\ pc = "dispatch"
        /\ todo # <<>>
        /\ Head(todo).destination = names[cur]
        /\ Head(todo).action = "READ_INVALIDATE"
        /\ Head(todo).source # names[cur]
        /\ home[Head(todo).page] = names[cur]
        /\ Head(todo).page \notin frozen[names[cur]]
        /\ ~SeqHas(locked[names[cur]], Head(todo).page)
        /\ Head(todo).page \in DOMAIN presence[names[cur]]
        /\ presence[names[cur]][Head(todo).page] = {names[cur]})
       => \A q \in {Head(todo)} : \A n0 \in {names[cur]} :
          /\ err' = NoErr
          /\ Flag(Cur, n0, q.page)' = INVALID
          /\ presence'[n0][q.page] = {q.source}
          /\ in_transit' = Append(in_transit,
                <<NewPacket("READ_INVALIDATE_ACKNOWLEDGE", q.page, n0,
                            q.source, None), table[n0][q.source]>>)
          /\ q.page \notin frozen'[n0]
      ]_vars

\* home n has handled an EVICTION_SAVE for page p and, since that packet
\* was sent, nothing but READ_MISS requests has been sent for p
SavedAtHome(p, n) ==
    \E i \in 1..Len(buffer) :
        /\ buffer[i][1].action = "EVICTION_SAVE"
        /\ buffer[i][1].page = p
        /\ buffer[i][1].destination = n
        /\ buffer[i][1] \notin PendingPackets
        /\ \A k \in (i + 1)..Len(buffer) :
              buffer[k][1].page = p => buffer[k][1].action = "READ_MISS"

\* C30 (home owns the copy after EVICTION_SAVE): when the home, having
\* handled an EVICTION_SAVE for P, handles a later READ_MISS for P of a node
\* L, it serves it itself: the handler completes, emits REPLY(P) to L and
\* nothing else, in particular no REMOTE_READ.
HomeOwnsAfterEvictionSave ==
    [][(/\ pc = "dispatch"
        /\ todo # <<>>
        /\ Head(todo).destination = names[cur]
        /\ Head(todo).action = "READ_MISS"
        /\ Head(todo).source # names[cur]
        /\ home[Head(todo).page] = names[cur]
        /\ Head(todo).page \notin frozen[names[cur]]
        /\ SavedAtHome(Head(todo).page, names[cur]))
       => \A q \in {Head(todo)} : \A n0 \in {names[cur]} :
          /\ err' = NoErr
          /\ in_transit' = Append(in_transit,
                <<NewPacket("REPLY", q.page, n0, q.source, None),
                  table[n0][q.source]>>)
      ]_vars

\* C31 (REMOTE_READ precondition): whenever a node handles a REMOTE_READ for
\* page P, it holds P with a state other than INVALID at that moment; this
\* is so for the REMOTE_READ a router hands to its node, and for the one a
\* home that does not hold P would address when it handles a READ_MISS: the
\* owner it names holds P.
RemoteReadPrecondition ==
    [][(pc = "dispatch" /\ todo # <<>> /\ Head(todo).destination = names[cur])
       => /\ Head(todo).action = "REMOTE_READ"
             => Flag(Cur, names[cur], Head(todo).page) # INVALID
          /\ (/\ Head(todo).action = "READ_MISS"
              /\ Head(todo).page \notin frozen[names[cur]]
              /\ Flag(Cur, names[cur], Head(todo).page) = INVALID
              /\ Head(todo).page \in DOMAIN presence[names[cur]]
              /\ Cardinality(presence[names[cur]][Head(todo).page]) = 1)
             => \A r \in presence[names[cur]][Head(todo).page] :
                   r # names[cur]
      ]_vars

\* C32 (EVICTION_NOTICE precondition): whenever the home handles an
\* EVICTION_NOTICE for page P from node S, the home holds P with a state
\* other than INVALID and S is a member of presence(P), so that the handler
\* removes S from presence(P) without error; and a node that emits an
\* EVICTION_NOTICE for a page held that page SHARED just before.
EvictionNoticePrecondition ==
    [][/\ (/\ pc = "dispatch"
           /\ todo # <<>>
           /\ Head(todo).destination = names[cur]
           /\ Head(todo).action = "EVICTION_NOTICE")
          => \A q \in {Head(todo)} : \A n0 \in {names[cur]} :
             /\ Flag(Cur, n0, q.page) # INVALID
             /\ q.page \in DOMAIN presence[n0]
             /\ q.source \in presence[n0][q.page]
             /\ err' = NoErr
             /\ presence'[n0][q.page] = presence[n0][q.page] \ {q.source}
       /\ \A i \in (Len(buffer) + 1)..Len(buffer') :
             (/\ buffer'[i][1].action = "EVICTION_NOTICE"
              /\ buffer'[i][2] = buffer'[i][1].source)
                => Flag(Cur, buffer'[i][1].source, buffer'[i][1].page) = SHARED
      ]_vars


OutputPermissionStable ==
    [][\A n \in Nodes : \A lk \in {locked[n]} :
          lk # <<>> =>
             \A p \in {lk[Len(lk)]} :
                (/\ Flag(Cur, n, p) = MODIFIED
                 /\ locked'[n] = lk
                 /\ err' = NoErr)
                   => Flag(Cur, n, p)' = MODIFIED
      ]_vars


\* node n is about to start an operation while every other node has finished
\* its program and no packet is in transit or awaiting anywhere
SequentialStart(n) ==
    /\ pc = "node"
    /\ names[cur] = n
    /\ err = NoErr
    /\ locked[n] = <<>>
    /\ program[n] # <<>>
    /\ \A m \in Nodes \ {n} : locked[m] = <<>> /\ program[m] = <<>>
    /\ \A m \in Nodes : awaiting[m] = <<>>
    /\ in_transit = <<>>
    /\ awaiting_transit = <<>>

\* C35 (sequential progress): an operation that a node starts while no other
\* node has an operation in flight or pending and no packet is in transit or
\* awaiting eventually completes: the operation has left the node's program
\* and its locked list is empty again.  This holds whatever the pages are,
\* also when the output page is homed at the node and SHARED there.
SequentialProgress ==
    \A n \in {"A", "B", "C"} : \A k \in 1..(MaxFill + 1) :
        (SequentialStart(n) /\ Len(program[n]) = k)
            ~> (locked[n] = <<>> /\ Len(program[n]) < k)


\* C36 (freeze discipline): the frozen set of a node only holds pages the
\* node homes; a request that would freeze a page (READ_MISS, INVALIDATE,
\* READ_INVALIDATE) is put aside while the page is frozen, so that a page is
\* frozen only when it was not; the handlers that unfreeze (remote_reply,
\* remote_invalidate_acknowledge, remote_read_invalidate_acknowledge) run
\* with the page frozen, so that removing it from the set never fails: in
\* particular the removal that ends the write upgrade of a page shared by
\* the requester and the home finds the page frozen.
FreezeDiscipline ==
    /\ [](\A n \in Nodes : frozen[n] \subseteq homed_pages[n])
    /\ [][(pc = "dispatch" /\ todo # <<>> /\ Head(todo).destination = names[cur])
             => \A q \in {Head(todo)} : \A n0 \in {names[cur]} :
                /\ (/\ q.action \in {"READ_MISS", "INVALIDATE", "READ_INVALIDATE"}
                    /\ q.page \in frozen[n0]
                    /\ err' = NoErr)
                      => /\ awaiting'[n0] = Append(awaiting[n0], q)
                         /\ frozen' = frozen
                /\ q.action \in {"REMOTE_REPLY", "REMOTE_INVALIDATE_ACKNOWLEDGE",
                                 "REMOTE_READ_INVALIDATE_ACKNOWLEDGE"}
                      => q.page \in frozen[n0]
                /\ (\E l \in Nodes : WriteUpgradeArrives(l, n0, q.page)
                                       /\ q.source = l)
                      => err' # "KeyError"
         ]_vars


\* C37 (try_operation runs with an operation in flight): a node that handles
\* a REPLY, an INVALIDATE_ACKNOWLEDGE, a READ_INVALIDATE_ACKNOWLEDGE or the
\* REMOTE_REPLY of its own request has a non-empty locked list, the list
\* try_operation takes its input and output pages from; this holds
\* for every program of non-empty operation records, those that list the
\* same input page more than once included.
TryOperationLocked ==
    [][(pc = "dispatch" /\ todo # <<>> /\ Head(todo).destination = names[cur])
          => \A q \in {Head(todo)} : \A n0 \in {names[cur]} :
             (\/ q.action \in {"REPLY", "INVALIDATE_ACKNOWLEDGE",
                               "READ_INVALIDATE_ACKNOWLEDGE"}
              \/ (q.action = "REMOTE_REPLY" /\ q.embedded = n0))
                => locked[n0] # <<>>
      ]_vars


\* NoC.__init__, and Node.__init__ and Directory.__init__ before the loop
\* over the homed pages: nothing held, an empty presence set per homed page
Blank ==
    [flags |-> [n \in Nodes |-> <<>>],
     lru |-> [n \in Nodes |-> <<>>],
     presence |-> [n \in Nodes |-> [p \in homed_pages[n] |-> {}]],
     frozen |-> [n \in Nodes |-> {}],
     locked |-> [n \in Nodes |-> <<>>],
     awaiting |-> [n \in Nodes |-> <<>>],
     in_transit |-> <<>>,
     buffer |-> <<>>,
     err |-> NoErr]

\* the loop of Directory.__init__ over the homed pages q of node n
RECURSIVE DirectoryInit(_, _, _)
DirectoryInit(s, n, q) ==
    IF q = <<>> THEN s
    ELSE DirectoryInit(
            add_presence(modify(add(s, n, Head(q), <<>>), n, Head(q)),
                         n, Head(q), n),
            n, Tail(q))

\* the NoC.node calls, from the i-th node on
RECURSIVE NocNodes(_, _)
NocNodes(s, i) ==
    IF i > Len(names) THEN s
    ELSE NocNodes(DirectoryInit(s, names[i], IntSetOrder(homed_pages[names[i]])),
                  i + 1)

\* the state the constructors build
Built == NocNodes(Blank, 1)

\* NoC.mainloop has not been entered yet
JustBuilt == pc = "mainloop" /\ cycle_counter = 0

\* C38 (initial state): when every node's size is at least the number of
\* pages it homes, the constructors end without error and the run starts in
\* the state they build: every node holds each page it homes MODIFIED with
\* presence exactly {its own name} and every other page INVALID, its frozen,
\* locked and awaiting sets are empty, the in-transit queue is empty and the
\* cycle counter is 0; no packet has been emitted (the trace is empty) and
\* nothing has been evicted (the LRU list holds each homed page once).
InitialState ==
    (JustBuilt /\ \A n \in Nodes : size[n] >= Cardinality(homed_pages[n])) =>
        /\ Built.err = NoErr
        /\ Cur = Built
        /\ \A n \in Nodes :
              /\ \A p \in homed_pages[n] :
                    Flag(Built, n, p) = MODIFIED /\ Built.presence[n][p] = {n}
              /\ \A p \in AllPages \ homed_pages[n] : Flag(Built, n, p) = INVALID
              /\ DOMAIN Built.presence[n] = homed_pages[n]
              /\ Built.frozen[n] = {}
              /\ Built.locked[n] = <<>>
              /\ Built.awaiting[n] = <<>>
              /\ Len(Built.lru[n]) = Cardinality(homed_pages[n])
              /\ {Built.lru[n][i] : i \in 1..Len(Built.lru[n])} = homed_pages[n]
        /\ Built.in_transit = <<>>
        /\ Built.buffer = <<>>
        /\ cycle_counter = 0

\* the constructors have returned for a node that homes several pages and has
\* exactly that size
InitialStateWitness ==
    /\ JustBuilt
    /\ \A n \in Nodes : size[n] >= Cardinality(homed_pages[n])
    /\ \E n \in Nodes : Cardinality(homed_pages[n]) >= 2
                        /\ size[n] = Cardinality(homed_pages[n])
====
